---- MODULE Spec2Model ----
(***************************************************************************)
(* polyjuice: run a command as another user with that user's login         *)
(* environment.                                                            *)
(*                                                                         *)
(*   src/src/env.rs   get_user_env     the library's environment harvester *)
(*   src/src/lib.rs   cmd_as_username, cmd_as_user, try_pam_session        *)
(*   src/src/main.rs  the CLI: setup_pam_context, get_env_as_map, main     *)
(*                                                                         *)
(* Two specifications share the variables:                                 *)
(*   Spec      one run of the CLI (main.rs) from argument parsing to exit  *)
(*   CallSpec  one call of get_user_env, get_env_as_map, try_pam_session   *)
(*             or cmd_as_username from entry to return, by any caller,     *)
(*             over every outcome                                          *)
(* Text is a sequence of one-character strings; a byte that is not valid   *)
(* UTF-8 is the string "xFF", the replacement character is "uFFFD".        *)
(***************************************************************************)
EXTENDS Naturals, Sequences, FiniteSets

VARIABLES
    entry,        \* the function a caller invoked: "main" or a library function
    euid,         \* effective uid of the calling process
    pc,           \* position of the coordinating (main) thread
    hfn,          \* the harvester in progress ("none" outside a harvest)
    hpc,          \* position inside the harvester
    output,       \* what Command::output() gave back to the harvester
    launches,     \* how many times the helper `su` has been launched
    hres,         \* the harvester's return value
    pam_ctx,      \* the PAM context: "none", "started", "ended"
    pam_acct,     \* pam_acct_mgmt's answer: "unchecked", "valid", "invalid"
    pam_session,  \* the PAM session: "none", "open", "closed"
    pamlog,       \* the PAM calls made so far, in order
    user,         \* the user record of the lookup ("none" before it)
    home,         \* what is at the user's home path: "absent", "dir", "file"
    envs,         \* main's harvested map ("none" before the harvest)
    child,        \* the spawn configuration of the workload ("none" before)
    childState,   \* "none", "running", "exited" (not yet waited for), "reaped"
    prog,         \* what the child writes: a sequence of <<stream, byte>>
    ip,           \* the child's next write
    pipe,         \* per stream, the bytes in the pipe
    rd,           \* per stream, the reader thread: "none", "run", "end", "panic"
    acc,          \* per stream, the bytes of the line being read
    printed,      \* the lines the readers have printed, in order
    result        \* what a library call returned to its caller

callVars == <<entry, euid>>
harvestVars == <<hfn, hpc, output, launches, hres>>
pamVars == <<pam_ctx, pam_acct, pam_session, pamlog>>
mainVars == <<user, home, envs, child>>
supVars == <<childState, prog, ip, pipe, rd, acc, printed>>

vars == <<callVars, pc, harvestVars, pamVars, mainVars, supVars, result>>

----------------------------------------------------------------------------
(* Bounds *)

\* The helper writes at most MaxOut bytes, stdout and stderr together.
MaxOut == 6

\* The workload child writes at most MaxWrites bytes, one per write.
MaxWrites == 3

\* A pipe holds at most PipeCap bytes; a write to a full pipe blocks.
PipeCap == 1

\* Inside cmd_as_username the helper writes at most MaxCmdOut bytes.
MaxCmdOut == 4

----------------------------------------------------------------------------
(* Text *)

LF == "\n"
INVALID == "xFF"
REPLACEMENT == "uFFFD"

StdoutBytes == {"A", "=", LF, INVALID}
StderrBytes == {"e", INVALID}

BSeq(S, n) == UNION {[1..k -> S] : k \in 0..n}

\* String::from_utf8_lossy: valid text is kept, an invalid sequence becomes
\* U+FFFD (0xFF is never part of a valid sequence, so one per byte).
from_utf8_lossy(bytes) ==
    [i \in 1..Len(bytes) |-> IF bytes[i] = INVALID THEN REPLACEMENT ELSE bytes[i]]

\* Index of the first c in s, 0 when there is none.
RECURSIVE Find(_, _, _)
Find(s, c, i) ==
    IF i > Len(s) THEN 0
    ELSE IF s[i] = c THEN i
    ELSE Find(s, c, i + 1)

\* str::lines: the pieces between line feeds; a final line needs no line
\* feed and a trailing line feed starts no empty line.  (No "\r" occurs in
\* the alphabets above.)
RECURSIVE lines(_)
lines(s) ==
    IF s = <<>> THEN <<>>
    ELSE LET i == Find(s, LF, 1) IN
         IF i = 0 THEN <<s>>
         ELSE <<SubSeq(s, 1, i - 1)>> \o lines(SubSeq(s, i + 1, Len(s)))

\* Mutant: a line with no '=' gives a key with an empty value.
splitn2_pad(line) ==
    LET i == Find(line, "=", 1) IN
    IF i = 0 THEN <<line, <<>>>>
    ELSE <<SubSeq(line, 1, i - 1), SubSeq(line, i + 1, Len(line))>>

\* Mutant: the cut is at the last '=' (rsplitn).
splitn2_last(line) ==
    LET S == {i \in 1..Len(line) : line[i] = "="} IN
    IF S = {} THEN <<line>>
    ELSE LET i == CHOOSE x \in S : \A y \in S : y <= x IN
         <<SubSeq(line, 1, i - 1), SubSeq(line, i + 1, Len(line))>>

\* str::splitn(2, '='): at most two pieces, cut at the first '=' only.
splitn2(line) ==
    LET i == Find(line, "=", 1) IN
    IF i = 0 THEN <<line>>
    ELSE <<SubSeq(line, 1, i - 1), SubSeq(line, i + 1, Len(line))>>

\* Mutant: an entry that is already there is kept (entry().or_insert()).
insert_keep_first(env_map, key, value) ==
    IF \E e \in env_map : e[1] = key THEN env_map
    ELSE env_map \cup {<<key, value>>}

\* HashMap::insert on a map held as a set of <<key, value>> entries: an
\* entry with the same key is replaced.
insert(env_map, key, value) ==
    {e \in env_map : e[1] # key} \cup {<<key, value>>}

Keys(env_map) == {e[1] : e \in env_map}

----------------------------------------------------------------------------
(* The helper process `su - <user> -c printenv` as Command::output() sees it *)

IoErrors == {"NotFound", "PermissionDenied"}

\* io::Error's Display text, one symbol per message.
io_to_string(e) == <<e>>

HelperStatuses == {"exit0", "exit1", "signal"}

\* ExitStatus::success
success(status) == status = "exit0"

HelperOutputs ==
    {[status |-> st, stdout |-> o, stderr |-> e] :
        st \in HelperStatuses,
        <<o, e>> \in {p \in BSeq(StdoutBytes, MaxOut) \X BSeq(StderrBytes, MaxOut) :
                        Len(p[1]) + Len(p[2]) <= MaxOut}}

\* The helper outcomes a call of cmd_as_username is checked with.
CmdHelperOutputs ==
    {o \in HelperOutputs : Len(o.stdout) + Len(o.stderr) <= MaxCmdOut}

NoOutput == [status |-> "none", stdout |-> <<>>, stderr |-> <<>>]

----------------------------------------------------------------------------
(* Results: Ok(map) or Err; kind "String" is main.rs's untyped Err(String) *)

Ok(env_map) == [tag |-> "Ok", map |-> env_map]
Err(kind, text) == [tag |-> "Err", kind |-> kind, text |-> text]
NoResult == [tag |-> "none"]

----------------------------------------------------------------------------
(* env.rs: get_user_env *)

\* The parse loop: every line with an '=' is inserted, in order.
RECURSIVE get_user_env_loop(_, _)
get_user_env_loop(ls, env_map) ==
    IF ls = <<>> THEN env_map
    ELSE LET split == splitn2(Head(ls)) IN
         get_user_env_loop(Tail(ls),
             IF Len(split) = 2 THEN insert(env_map, split[1], split[2])
             ELSE env_map)

get_user_env_parse(stdout) ==
    get_user_env_loop(lines(from_utf8_lossy(stdout)), {})

\* Mutant: the error carries the captured standard output.
get_user_env_exited_stdout(o) == Err("CommandExited", from_utf8_lossy(o.stdout))

get_user_env_exited(o) == Err("CommandExited", from_utf8_lossy(o.stderr))

get_user_env_launch_error(e) == Err("FailedExecutingCommand", io_to_string(e))

\* Whether get_user_env refuses the caller.
get_user_env_refuses(uid) == uid # 0

\* if get_effective_uid() != 0 { return Err(InsufficientPrivileges) }
get_user_env_check ==
    /\ hfn = "get_user_env" /\ hpc = "check"
    /\ IF get_user_env_refuses(euid)
       THEN /\ hres' = Err("InsufficientPrivileges", <<>>)
            /\ hpc' = "ret"
       ELSE /\ hpc' = "run"
            /\ UNCHANGED hres
    /\ UNCHANGED <<hfn, output, launches>>
    /\ UNCHANGED <<callVars, pc, pamVars, mainVars, supVars, result>>

\* Command::new("su")...output(): the launch fails, or su runs to its end.
get_user_env_run(outs) ==
    /\ hfn = "get_user_env" /\ hpc = "run"
    /\ launches' = launches + 1
    /\ \/ \E e \in IoErrors :
            /\ hres' = get_user_env_launch_error(e)
            /\ hpc' = "ret"
            /\ UNCHANGED output
       \/ \E o \in outs :
            /\ output' = o
            /\ hpc' = "got"
            /\ UNCHANGED hres
    /\ UNCHANGED hfn
    /\ UNCHANGED <<callVars, pc, pamVars, mainVars, supVars, result>>

\* What get_user_env returns once the helper has run: the status check,
\* the parse and Ok(env_map).
get_user_env_result(o) ==
    IF ~success(o.status)
    THEN get_user_env_exited(o)
    ELSE Ok(get_user_env_parse(o.stdout))

\* The status check, the parse and the return.
get_user_env_finish ==
    /\ hfn = "get_user_env" /\ hpc = "got"
    /\ hres' = get_user_env_result(output)
    /\ hpc' = "ret"
    /\ UNCHANGED <<hfn, output, launches>>
    /\ UNCHANGED <<callVars, pc, pamVars, mainVars, supVars, result>>

----------------------------------------------------------------------------
(* main.rs: get_env_as_map *)

RECURSIVE get_env_as_map_loop(_, _)
get_env_as_map_loop(ls, env_map) ==
    IF ls = <<>> THEN env_map
    ELSE LET split == splitn2(Head(ls)) IN
         get_env_as_map_loop(Tail(ls),
             IF Len(split) = 2 THEN insert(env_map, split[1], split[2])
             ELSE env_map)

get_env_as_map_parse(stdout) ==
    get_env_as_map_loop(lines(from_utf8_lossy(stdout)), {})

get_env_as_map_exited(o) == Err("String", from_utf8_lossy(o.stderr))

get_env_as_map_launch_error(e) == Err("String", io_to_string(e))

\* Command::new("su")...output(), with no check of the caller before it.
get_env_as_map_run(outs) ==
    /\ hfn = "get_env_as_map" /\ hpc = "run"
    /\ launches' = launches + 1
    /\ \/ \E e \in IoErrors :
            /\ hres' = get_env_as_map_launch_error(e)
            /\ hpc' = "ret"
            /\ UNCHANGED output
       \/ \E o \in outs :
            /\ output' = o
            /\ hpc' = "got"
            /\ UNCHANGED hres
    /\ UNCHANGED hfn
    /\ UNCHANGED <<callVars, pc, pamVars, mainVars, supVars, result>>

\* get_env_as_map without its status check.
get_env_as_map_result_unchecked(o) == Ok(get_env_as_map_parse(o.stdout))

\* What get_env_as_map returns once the helper has run.
get_env_as_map_result(o) ==
    IF ~success(o.status)
    THEN get_env_as_map_exited(o)
    ELSE Ok(get_env_as_map_parse(o.stdout))

get_env_as_map_finish ==
    /\ hfn = "get_env_as_map" /\ hpc = "got"
    /\ hres' = get_env_as_map_result(output)
    /\ hpc' = "ret"
    /\ UNCHANGED <<hfn, output, launches>>
    /\ UNCHANGED <<callVars, pc, pamVars, mainVars, supVars, result>>

----------------------------------------------------------------------------
(* PAM, as pam_client drives it: Context::new is pam_start, dropping a     *)
(* Session is pam_close_session, dropping a Context is pam_end.  Whether a *)
(* call succeeds is the platform's answer.                                 *)

PamStartErrors == {"SYSTEM_ERR"}
PamAcctErrors == {"ACCT_EXPIRED", "PERM_DENIED"}
PamOpenErrors == {"SESSION_ERR"}

\* A boxed pam_client error, as try_pam_session returns it.
BoxedPamError(code) == Err("Box<dyn Error>", <<code>>)

\* pam_mkhomedir and the like may create the home directory when the
\* session opens.
HomeAfterOpen(h) == {h, "dir"}

----------------------------------------------------------------------------
(* lib.rs: try_pam_session *)

\* Context::new("polyjuice", Some(&username), ...)?
try_pam_session_new ==
    /\ entry = "try_pam_session" /\ pc = "pam_new"
    /\ pamlog' = Append(pamlog, "start")
    /\ \/ /\ pam_ctx' = "started"
          /\ pc' = "pam_acct"
          /\ UNCHANGED result
       \/ \E c \in PamStartErrors :
          /\ result' = BoxedPamError(c)
          /\ pc' = "ret"
          /\ UNCHANGED pam_ctx
    /\ UNCHANGED <<callVars, harvestVars, pam_acct, pam_session, mainVars, supVars>>

\* try_pam_session with the answer of acct_mgmt thrown away
\* (`let _ = context.acct_mgmt(Flag::NONE);`).
try_pam_session_acct_unchecked ==
    /\ entry = "try_pam_session" /\ pc = "pam_acct"
    /\ pamlog' = Append(pamlog, "acct_mgmt")
    /\ pam_acct' \in {"valid", "invalid"}
    /\ pc' = "pam_open"
    /\ UNCHANGED <<callVars, harvestVars, pam_ctx, pam_session, mainVars,
                   supVars, result>>

\* context.acct_mgmt(Flag::NONE)?  An error drops the context.
try_pam_session_acct ==
    /\ entry = "try_pam_session" /\ pc = "pam_acct"
    /\ \/ /\ pamlog' = Append(pamlog, "acct_mgmt")
          /\ pam_acct' = "valid"
          /\ pc' = "pam_open"
          /\ UNCHANGED <<pam_ctx, result>>
       \/ \E c \in PamAcctErrors :
          /\ pamlog' = pamlog \o <<"acct_mgmt", "end">>
          /\ pam_acct' = "invalid"
          /\ pam_ctx' = "ended"
          /\ result' = BoxedPamError(c)
          /\ pc' = "ret"
    /\ UNCHANGED <<callVars, harvestVars, pam_session, mainVars, supVars>>

\* let _session = context.open_session(Flag::SILENT)?
try_pam_session_open ==
    /\ entry = "try_pam_session" /\ pc = "pam_open"
    /\ \/ /\ pamlog' = Append(pamlog, "open_session")
          /\ pam_session' = "open"
          /\ home' \in HomeAfterOpen(home)
          /\ pc' = "pam_ok"
          /\ UNCHANGED <<pam_ctx, result>>
       \/ \E c \in PamOpenErrors :
          /\ pamlog' = pamlog \o <<"open_session", "end">>
          /\ pam_ctx' = "ended"
          /\ result' = BoxedPamError(c)
          /\ pc' = "ret"
          /\ UNCHANGED <<pam_session, home>>
    /\ UNCHANGED <<callVars, harvestVars, pam_acct, user, envs, child, supVars>>

\* Ok(()): _session and context go out of scope, in that order.
try_pam_session_ok ==
    /\ entry = "try_pam_session" /\ pc = "pam_ok"
    /\ pamlog' = pamlog \o <<"close_session", "end">>
    /\ pam_session' = "closed"
    /\ pam_ctx' = "ended"
    /\ result' = [tag |-> "Ok"]
    /\ pc' = "ret"
    /\ UNCHANGED <<callVars, harvestVars, pam_acct, mainVars, supVars>>

----------------------------------------------------------------------------
(* main.rs: main, up to the spawn *)

None == [tag |-> "None"]
Some(v) == [tag |-> "Some", val |-> v]

\* The records get_user_by_name may find for the user name given; home_utf8
\* says whether the home path is valid UTF-8 (home_dir().to_str()).
TargetUsers ==
    {[uid |-> 1001, primary_group_id |-> 100, home_utf8 |-> b] : b \in BOOLEAN}

\* What the caller's own environment holds.
CallerEnv == {<< <<"P">>, <<"r">> >>, << <<"A">>, <<"r">> >>}

\* std::process::exit(1) and a panic of the main thread end the process,
\* and so does main's return; the reader threads end with it.
Final == {"exit0", "exit1", "panic"}

\* get_user_by_name(..).unwrap_or_else(|| exit(1)), then
\* user.home_dir().to_str().unwrap_or_else(|| exit(1)).
main_lookup ==
    /\ entry = "main" /\ pc = "lookup"
    /\ \/ \E u \in TargetUsers :
          /\ user' = Some(u)
          /\ pc' = IF u.home_utf8 THEN "metadata" ELSE "exit1"
       \/ /\ pc' = "exit1"
          /\ UNCHANGED user
    /\ UNCHANGED <<callVars, harvestVars, pamVars, home, envs, child, supVars, result>>

\* main with the bootstrap taken whenever the home path is not a directory.
main_metadata_unless_dir ==
    /\ entry = "main" /\ pc = "metadata"
    /\ pc' = IF home = "dir" THEN "harvest" ELSE "pam_new"
    /\ UNCHANGED <<callVars, harvestVars, pamVars, mainVars, supVars, result>>

\* if let Ok(metadata) = fs::metadata(home_dir) { .. } else { PAM }
main_metadata ==
    /\ entry = "main" /\ pc = "metadata"
    /\ pc' = IF home = "absent" THEN "pam_new" ELSE "harvest"
    /\ UNCHANGED <<callVars, harvestVars, pamVars, mainVars, supVars, result>>

\* setup_pam_context: Context::new(..)?
main_pam_new ==
    /\ entry = "main" /\ pc = "pam_new"
    /\ pamlog' = Append(pamlog, "start")
    /\ \/ /\ pam_ctx' = "started"
          /\ pc' = "pam_acct"
       \/ /\ pc' = "exit1"
          /\ UNCHANGED pam_ctx
    /\ UNCHANGED <<callVars, harvestVars, pam_acct, pam_session, mainVars, supVars, result>>

\* setup_pam_context: context.acct_mgmt(Flag::NONE)?  An error drops the
\* context on the way out of setup_pam_context; main then exits.
main_pam_acct ==
    /\ entry = "main" /\ pc = "pam_acct"
    /\ \/ /\ pamlog' = Append(pamlog, "acct_mgmt")
          /\ pam_acct' = "valid"
          /\ pc' = "pam_open"
          /\ UNCHANGED pam_ctx
       \/ /\ pamlog' = pamlog \o <<"acct_mgmt", "end">>
          /\ pam_acct' = "invalid"
          /\ pam_ctx' = "ended"
          /\ pc' = "exit1"
    /\ UNCHANGED <<callVars, harvestVars, pam_session, mainVars, supVars, result>>

\* main with a session that is best effort: a failed open_session is
\* passed over.
main_pam_open_best_effort ==
    /\ entry = "main" /\ pc = "pam_open"
    /\ pamlog' = Append(pamlog, "open_session")
    /\ \/ /\ pam_session' = "open"
          /\ home' \in HomeAfterOpen(home)
       \/ UNCHANGED <<pam_session, home>>
    /\ pc' = "pam_scope_end"
    /\ UNCHANGED <<callVars, harvestVars, pam_ctx, pam_acct, user, envs, child,
                   supVars, result>>

\* let _session = ctx.open_session(Flag::SILENT).unwrap_or_else(|e| exit(1))
\* exit(1) runs no destructor: the context is never ended.
main_pam_open ==
    /\ entry = "main" /\ pc = "pam_open"
    /\ pamlog' = Append(pamlog, "open_session")
    /\ \/ /\ pam_session' = "open"
          /\ home' \in HomeAfterOpen(home)
          /\ pc' = "pam_scope_end"
       \/ /\ pc' = "exit1"
          /\ UNCHANGED <<pam_session, home>>
    /\ UNCHANGED <<callVars, harvestVars, pam_ctx, pam_acct, user, envs, child,
                   supVars, result>>

\* main with the session bound for the whole of main rather than for the
\* else block: nothing is dropped before the harvest.
main_pam_scope_end_session_kept ==
    /\ entry = "main" /\ pc = "pam_scope_end"
    /\ pc' = "harvest"
    /\ UNCHANGED <<callVars, harvestVars, pamVars, mainVars, supVars, result>>

\* The second fs::metadata only prints; at the end of the else block
\* _session is dropped, then ctx.
main_pam_scope_end ==
    /\ entry = "main" /\ pc = "pam_scope_end"
    /\ pamlog' = pamlog \o <<"close_session", "end">>
    /\ pam_session' = "closed"
    /\ pam_ctx' = "ended"
    /\ pc' = "harvest"
    /\ UNCHANGED <<callVars, harvestVars, pam_acct, mainVars, supVars, result>>

\* get_env_as_map(args.username.clone())
main_call_get_env_as_map ==
    /\ entry = "main" /\ pc = "harvest"
    /\ hfn' = "get_env_as_map"
    /\ hpc' = "run"
    /\ pc' = "harvesting"
    /\ UNCHANGED <<callVars, output, launches, hres, pamVars, mainVars, supVars, result>>

\* main with .unwrap_or_default() on the harvest: a failed harvest goes on
\* with an empty map.
main_unwrap_envs_or_default ==
    /\ entry = "main" /\ pc = "harvesting" /\ hpc = "ret"
    /\ envs' = Some(IF hres.tag = "Ok" THEN hres.map ELSE {})
    /\ pc' = "spawn"
    /\ hfn' = "none"
    /\ hpc' = "idle"
    /\ output' = NoOutput
    /\ UNCHANGED <<callVars, launches, hres, pamVars, user, home, child,
                   supVars, result>>

\* .unwrap_or_else(|e| { println!(..); exit(1) }); the harvester's locals
\* are gone once it has returned, what it returned stays on record.
main_unwrap_envs ==
    /\ entry = "main" /\ pc = "harvesting" /\ hpc = "ret"
    /\ IF hres.tag = "Ok"
       THEN /\ envs' = Some(hres.map)
            /\ pc' = "spawn"
       ELSE /\ pc' = "exit1"
            /\ UNCHANGED envs
    /\ hfn' = "none"
    /\ hpc' = "idle"
    /\ output' = NoOutput
    /\ UNCHANGED <<callVars, launches, hres, pamVars, user, home, child,
                   supVars, result>>

----------------------------------------------------------------------------
(* main.rs: the spawn of the workload and its supervision *)

Streams == {"stdout", "stderr"}

ChildBytes == {"a", LF, INVALID}

\* What a child may write: at most MaxWrites bytes, each to one stream.
Progs == BSeq(Streams \X ChildBytes, MaxWrites)

\* A Command without env_clear: the child inherits the caller's variables.
env_inherit(env) == env

\* Command::env_clear
env_clear(env) == {}

\* Command::envs: every entry of the map is set.
command_envs(env, map) == {e \in env : e[1] \notin Keys(map)} \cup map

\* The group a child gets when Command::gid is not called: the caller's.
InheritedGid == euid

\* setuid to another user in the child needs a privileged caller; without
\* it the spawn fails.
SpawnPermitted == euid = 0 \/ euid = user.val.uid

\* Command::new("R")...env_clear().envs(envs).uid(user.uid()).spawn()
\*     .expect("R command failed to start")
main_spawn ==
    /\ entry = "main" /\ pc = "spawn"
    /\ \/ /\ SpawnPermitted
          /\ child' = Some([program |-> "R",
                            uid |-> user.val.uid,
                            gid |-> InheritedGid,
                            env |-> command_envs(env_clear(CallerEnv), envs.val)])
          /\ childState' = "running"
          /\ prog' \in Progs
          /\ pc' = "thread_stdout"
       \/ /\ pc' = "panic"
          /\ UNCHANGED <<child, childState, prog>>
    /\ UNCHANGED <<callVars, harvestVars, pamVars, user, home, envs,
                   ip, pipe, rd, acc, printed, result>>

\* The child's next write.  A write to a pipe whose read end is closed (its
\* reader thread panicked) kills the child with SIGPIPE; a write to a full
\* pipe blocks.
child_write ==
    /\ childState = "running" /\ ip <= Len(prog)
    /\ LET s == prog[ip][1]
           b == prog[ip][2]
       IN IF rd[s] = "panic"
          THEN /\ childState' = "exited"
               /\ UNCHANGED <<ip, pipe>>
          ELSE /\ Len(pipe[s]) < PipeCap
               /\ pipe' = [pipe EXCEPT ![s] = Append(@, b)]
               /\ ip' = ip + 1
               /\ UNCHANGED childState
    /\ UNCHANGED <<callVars, pc, harvestVars, pamVars, mainVars,
                   prog, rd, acc, printed, result>>

\* The child exits once it has written everything; its ends of the pipes
\* close.
child_exit ==
    /\ childState = "running" /\ ip > Len(prog)
    /\ childState' = "exited"
    /\ UNCHANGED <<callVars, pc, harvestVars, pamVars, mainVars,
                   prog, ip, pipe, rd, acc, printed, result>>

\* thread::spawn of a reader.
ThreadSpawned(s) == [rd EXCEPT ![s] = "run"]

\* let _stdout_thread = thread::spawn(..)
main_spawn_stdout_thread ==
    /\ entry = "main" /\ pc = "thread_stdout"
    /\ rd' = ThreadSpawned("stdout")
    /\ pc' = "thread_stderr"
    /\ UNCHANGED <<callVars, harvestVars, pamVars, mainVars,
                   childState, prog, ip, pipe, acc, printed, result>>

\* let _stderr_thread = thread::spawn(..)
main_spawn_stderr_thread ==
    /\ entry = "main" /\ pc = "thread_stderr"
    /\ rd' = ThreadSpawned("stderr")
    /\ pc' = "wait"
    /\ UNCHANGED <<callVars, harvestVars, pamVars, mainVars,
                   childState, prog, ip, pipe, acc, printed, result>>

\* BufRead::lines gives Err(InvalidData) for a line that is not UTF-8.
ValidLine(line) == \A i \in 1..Len(line) : line[i] # INVALID

\* Mutant: the streams are drained one after the other, stderr only once
\* the stdout reader is through.
ReaderRunsInTurn(s) ==
    /\ rd[s] = "run" /\ pc \notin Final
    /\ s = "stderr" => rd["stdout"] \in {"end", "panic"}

\* Whether reader s is at work: its thread runs and the process lives.
ReaderRuns(s) == rd[s] = "run" /\ pc \notin Final

\* One step of `for line in reader.lines() { println!("{tag}{line}") }` on
\* stream s: a byte is taken from the pipe and a line feed completes a line;
\* at end of stream (the pipe is empty and the child has exited) what is left
\* is the last line and the thread ends.  line.expect(..) panics the thread
\* on a line that is not UTF-8, which drops its end of the pipe.
reader(s, tag) ==
    /\ ReaderRuns(s)
    /\ \/ /\ pipe[s] # <<>>
          /\ pipe' = [pipe EXCEPT ![s] = Tail(@)]
          /\ IF Head(pipe[s]) # LF
             THEN /\ acc' = [acc EXCEPT ![s] = Append(@, Head(pipe[s]))]
                  /\ UNCHANGED <<rd, printed>>
             ELSE /\ acc' = [acc EXCEPT ![s] = <<>>]
                  /\ IF ValidLine(acc[s])
                     THEN /\ printed' = Append(printed, [tag |-> tag, line |-> acc[s]])
                          /\ UNCHANGED rd
                     ELSE /\ rd' = [rd EXCEPT ![s] = "panic"]
                          /\ UNCHANGED printed
       \/ /\ pipe[s] = <<>>
          /\ childState \in {"exited", "reaped"}
          /\ acc' = [acc EXCEPT ![s] = <<>>]
          /\ UNCHANGED pipe
          /\ IF acc[s] = <<>>
             THEN /\ rd' = [rd EXCEPT ![s] = "end"]
                  /\ UNCHANGED printed
             ELSE IF ValidLine(acc[s])
             THEN /\ printed' = Append(printed, [tag |-> tag, line |-> acc[s]])
                  /\ rd' = [rd EXCEPT ![s] = "end"]
             ELSE /\ rd' = [rd EXCEPT ![s] = "panic"]
                  /\ UNCHANGED printed
    /\ UNCHANGED <<callVars, pc, harvestVars, pamVars, mainVars,
                   childState, prog, ip, result>>

\* The closure of _stdout_thread.
stdout_thread == reader("stdout", "[stdout] ")

\* The closure of _stderr_thread.
stderr_thread == reader("stderr", "[stderr] ")

\* child.wait().expect(..): returns once the child has exited.
main_wait ==
    /\ entry = "main" /\ pc = "wait"
    /\ childState = "exited"
    /\ childState' = "reaped"
    /\ pc' = "return"
    /\ UNCHANGED <<callVars, harvestVars, pamVars, mainVars,
                   prog, ip, pipe, rd, acc, printed, result>>

\* main returns (the joins are commented out) and the process exits.
main_return ==
    /\ entry = "main" /\ pc = "return"
    /\ pc' = "exit0"
    /\ UNCHANGED <<callVars, harvestVars, pamVars, mainVars, supVars, result>>

----------------------------------------------------------------------------
(* Spec: one run of the CLI *)

HomeStates == {"absent", "dir", "file"}

Uids == {0, 1000}

\* The helper outcomes the CLI run is checked with.
CliHelperOutputs ==
    {[status |-> "exit0", stdout |-> <<"A", "=", "A", LF>>, stderr |-> <<>>],
     [status |-> "exit0", stdout |-> <<"A", "=", LF, "A">>, stderr |-> <<"e">>],
     [status |-> "exit1", stdout |-> <<"A", "=", "A", LF>>, stderr |-> <<"e", INVALID>>],
     [status |-> "signal", stdout |-> <<>>, stderr |-> <<>>]}

HarvestIdle ==
    /\ hfn = "none" /\ hpc = "idle"
    /\ output = NoOutput /\ launches = 0 /\ hres = NoResult

PamIdle ==
    /\ pam_ctx = "none" /\ pam_acct = "unchecked"
    /\ pam_session = "none" /\ pamlog = <<>>

SupIdle ==
    /\ childState = "none" /\ prog = <<>> /\ ip = 1
    /\ pipe = [s \in Streams |-> <<>>]
    /\ rd = [s \in Streams |-> "none"]
    /\ acc = [s \in Streams |-> <<>>]
    /\ printed = <<>>

Init ==
    /\ entry = "main"
    /\ euid \in Uids
    /\ pc = "lookup"
    /\ HarvestIdle /\ PamIdle /\ SupIdle
    /\ user = None /\ home \in HomeStates /\ envs = None /\ child = None
    /\ result = None

Next ==
    \/ main_lookup
    \/ main_metadata
    \/ main_pam_new
    \/ main_pam_acct
    \/ main_pam_open
    \/ main_pam_scope_end
    \/ main_call_get_env_as_map
    \/ get_env_as_map_run(CliHelperOutputs)
    \/ get_env_as_map_finish
    \/ main_unwrap_envs
    \/ main_spawn
    \/ child_write
    \/ child_exit
    \/ main_spawn_stdout_thread
    \/ main_spawn_stderr_thread
    \/ stdout_thread
    \/ stderr_thread
    \/ main_wait
    \/ main_return

Spec == Init /\ [][Next]_vars

----------------------------------------------------------------------------
(* lib.rs: cmd_as_username, cmd_as_user *)

\* Where each harvester's body begins.
HarvestEntry(f) == IF f = "get_user_env" THEN "check" ELSE "run"

\* What cmd_as_user hands back: a Command, configured and not yet spawned.
OkCommand(cmd) == [tag |-> "Ok", cmd |-> cmd]

\* CmdError::FailedGettingEnv(e)
FailedGettingEnv(e) == [tag |-> "Err", kind |-> "FailedGettingEnv", cause |-> e]

\* cmd_as_username going on without a user record.
cmd_as_username_lookup_unchecked ==
    /\ entry = "cmd_as_username" /\ pc = "lookup"
    /\ user' \in {None} \cup {Some(u) : u \in TargetUsers}
    /\ pc' = "cmd_as_user"
    /\ UNCHANGED <<callVars, harvestVars, pamVars, home, envs, child, supVars,
                   result>>

\* let user = users::get_user_by_name(&username).ok_or(CmdError::UserNotFound)?
cmd_as_username_lookup ==
    /\ entry = "cmd_as_username" /\ pc = "lookup"
    /\ \/ \E u \in TargetUsers :
          /\ user' = Some(u)
          /\ pc' = "cmd_as_user"
          /\ UNCHANGED result
       \/ /\ result' = Err("UserNotFound", <<>>)
          /\ pc' = "ret"
          /\ UNCHANGED user
    /\ UNCHANGED <<callVars, harvestVars, pamVars, home, envs, child, supVars>>

\* cmd_as_user: get_user_env(user.name().to_str().unwrap()) is called
cmd_as_user_call_get_user_env ==
    /\ entry = "cmd_as_username" /\ pc = "cmd_as_user"
    /\ hfn' = "get_user_env"
    /\ hpc' = HarvestEntry("get_user_env")
    /\ pc' = "harvesting"
    /\ UNCHANGED <<callVars, output, launches, hres, pamVars, mainVars, supVars, result>>

\* cmd_as_user: `?` on the harvest, then Command::new(program) with
\* .uid(..).gid(..) and .env_clear().envs(env); cmd_as_username wraps an
\* error in FailedGettingEnv.
cmd_as_user_build ==
    /\ entry = "cmd_as_username" /\ pc = "harvesting" /\ hpc = "ret"
    /\ result' = IF hres.tag = "Ok"
                 THEN OkCommand([program |-> "R",
                                 uid |-> user.val.uid,
                                 gid |-> user.val.primary_group_id,
                                 env |-> command_envs(env_clear(CallerEnv), hres.map)])
                 ELSE FailedGettingEnv(hres)
    /\ pc' = "ret"
    /\ UNCHANGED <<callVars, harvestVars, pamVars, mainVars, supVars>>

----------------------------------------------------------------------------
(* CallSpec: one call of a library function or of the CLI's harvester, by  *)
(* any caller, over every outcome                                          *)

Harvesters == {"get_user_env", "get_env_as_map"}

CallInit ==
    /\ entry \in Harvesters \cup {"try_pam_session", "cmd_as_username"}
    /\ euid \in Uids
    /\ IF entry \in Harvesters
       THEN /\ pc = "call"
            /\ hfn = entry
            /\ hpc = HarvestEntry(entry)
            /\ home = "dir"
       ELSE /\ pc = IF entry = "try_pam_session" THEN "pam_new" ELSE "lookup"
            /\ hfn = "none"
            /\ hpc = "idle"
            /\ home \in IF entry = "try_pam_session" THEN HomeStates ELSE {"dir"}
    /\ output = NoOutput /\ launches = 0 /\ hres = NoResult
    /\ PamIdle /\ SupIdle
    /\ user = None /\ envs = None /\ child = None
    /\ result = None

\* The helper outcomes a call is checked with.
CallOutputs ==
    IF entry = "cmd_as_username" THEN CmdHelperOutputs ELSE HelperOutputs

CallNext ==
    \/ cmd_as_username_lookup
    \/ cmd_as_user_call_get_user_env
    \/ cmd_as_user_build
    \/ get_user_env_check
    \/ get_user_env_run(CallOutputs)
    \/ get_user_env_finish
    \/ get_env_as_map_run(HelperOutputs)
    \/ get_env_as_map_finish
    \/ try_pam_session_new
    \/ try_pam_session_acct
    \/ try_pam_session_open
    \/ try_pam_session_ok

CallSpec == CallInit /\ [][CallNext]_vars

----------------------------------------------------------------------------
(* What the claims speak of *)

\* The helper was launched and ran to its end.
HelperRan == output.status # "none"

Returned == hpc = "ret"

\* The helper's output as text lines.
OutLines == lines(from_utf8_lossy(output.stdout))

HasEq(l) == \E i \in 1..Len(l) : l[i] = "="

FirstEq(l) ==
    CHOOSE i \in 1..Len(l) : l[i] = "=" /\ \A j \in 1..(i - 1) : l[j] # "="

KeyOf(l) == SubSeq(l, 1, FirstEq(l) - 1)

ValOf(l) == SubSeq(l, FirstEq(l) + 1, Len(l))

\* The last line of ls that has an '=' and the key k.
LastFor(ls, k) ==
    LET S == {j \in 1..Len(ls) : HasEq(ls[j]) /\ KeyOf(ls[j]) = k} IN
    CHOOSE j \in S : \A m \in S : m <= j

\* The bytes the child has written to stream s so far.
RECURSIVE WrittenUpTo(_, _)
WrittenUpTo(s, n) ==
    IF n = 0 THEN <<>>
    ELSE WrittenUpTo(s, n - 1) \o (IF prog[n][1] = s THEN <<prog[n][2]>> ELSE <<>>)

Written(s) == WrittenUpTo(s, ip - 1)

\* The lines printed with a tag, in the order they were printed.
RECURSIVE PrintedWith(_, _)
PrintedWith(tag, n) ==
    IF n = 0 THEN <<>>
    ELSE PrintedWith(tag, n - 1)
            \o (IF printed[n].tag = tag THEN <<printed[n].line>> ELSE <<>>)

IsPrefix(p, q) == Len(p) <= Len(q) /\ SubSeq(q, 1, Len(p)) = p

\* main's child.wait() has returned.
WaitReturned == pc \in {"return", "exit0"}

\* C1: the coordinator has never waited for the child, or returned, while a
\* reader still has unread or unprinted output.
C1_NoReturnBeforeDrained ==
    WaitReturned =>
        \A s \in Streams : pipe[s] = <<>> /\ acc[s] = <<>>

\* C2: the run never gets stuck: until the process has ended some step is
\* possible (no state has the child blocked on a full pipe with nobody
\* draining it and main blocked in wait), and a run that returns from main
\* has reaped a child that wrote all it had to write.
C2_NoDeadlock ==
    /\ pc \notin Final => ENABLED Next
    /\ (pc = "exit0" /\ \A s \in Streams : rd[s] # "panic") =>
            childState = "reaped" /\ ip > Len(prog)

C2_Witness ==
    /\ pc = "exit0" /\ childState = "reaped"
    /\ \E s, t \in Streams :
        /\ Len(Written(s)) > PipeCap
        /\ s # t /\ Written(t) = <<>>

\* C3: what is printed with a stream's tag is, line by line and in order,
\* what the child wrote to that stream, and once the run has finished it is
\* all of it.
C3_EveryLineEmitted ==
    /\ IsPrefix(PrintedWith("[stdout] ", Len(printed)), lines(Written("stdout")))
    /\ IsPrefix(PrintedWith("[stderr] ", Len(printed)), lines(Written("stderr")))
    /\ pc = "exit0" =>
        /\ PrintedWith("[stdout] ", Len(printed)) = lines(Written("stdout"))
        /\ PrintedWith("[stderr] ", Len(printed)) = lines(Written("stderr"))

\* C4: a harvest by a caller whose effective uid is not 0 returns
\* InsufficientPrivileges and never launches su, whichever harvester it is.
C4_UnprivilegedNeverLaunches ==
    euid # 0 =>
        /\ launches = 0
        /\ Returned => hres = Err("InsufficientPrivileges", <<>>)

\* C5: session bootstrap by a caller whose effective uid is not 0 fails
\* with InsufficientPrivileges before any PAM call is made.
C5_BootstrapRefusesUnprivileged ==
    euid # 0 =>
        /\ pamlog = <<>> /\ pam_ctx = "none" /\ pam_session = "none"
        /\ (entry = "try_pam_session" /\ pc = "ret") =>
                result = Err("InsufficientPrivileges", <<>>)

\* C6: the harvested map has exactly one entry for each key of a line with
\* an '=', and its value is that of the last such line for the key.
C6_LastWriteWins ==
    (Returned /\ hres.tag = "Ok") =>
        \A i \in 1..Len(OutLines) :
            HasEq(OutLines[i]) =>
                LET k == KeyOf(OutLines[i]) IN
                {e \in hres.map : e[1] = k}
                    = {<<k, ValOf(OutLines[LastFor(OutLines, k)])>>}

C6_Witness ==
    /\ Returned /\ hres.tag = "Ok"
    /\ \E i, j \in 1..Len(OutLines) :
        /\ i < j /\ HasEq(OutLines[i]) /\ HasEq(OutLines[j])
        /\ KeyOf(OutLines[i]) = KeyOf(OutLines[j])
        /\ ValOf(OutLines[i]) # ValOf(OutLines[j])
    /\ \E i \in 1..Len(OutLines) : HasEq(OutLines[i]) /\ KeyOf(OutLines[i]) # <<>>

\* C7: a line with no '=' adds no entry, changes none and fails nothing: a
\* helper that exited with success yields Ok, every key of the map is the
\* key of a line with an '=', and the map is the one the lines with an '='
\* give alone.
C7_MalformedLinesDropped ==
    (Returned /\ HelperRan /\ success(output.status)) =>
        /\ hres.tag = "Ok"
        /\ LET good == SelectSeq(OutLines, HasEq) IN
           hres.map = {<<KeyOf(good[i]), ValOf(good[i])>> :
                          i \in {j \in 1..Len(good) :
                                  j = LastFor(good, KeyOf(good[j]))}}

C7_Witness ==
    /\ Returned /\ hres.tag = "Ok"
    /\ \E i, j \in 1..Len(OutLines) :
        /\ i < j
        /\ HasEq(OutLines[i]) /\ OutLines[j] # <<>> /\ ~HasEq(OutLines[j])
    /\ Cardinality(hres.map) = 1

\* C8: a line with an '=' is cut at its first '=' only: unless a later line
\* has the same key, the map holds the text before the first '=' (which has
\* no '=' in it) as key with all the text after it as value.
C8_SplitAtFirstEq ==
    (Returned /\ hres.tag = "Ok") =>
        \A i \in 1..Len(OutLines) :
            HasEq(OutLines[i]) =>
                \E n \in 1..Len(OutLines[i]) :
                    LET key == SubSeq(OutLines[i], 1, n - 1)
                        value == SubSeq(OutLines[i], n + 1, Len(OutLines[i]))
                    IN /\ OutLines[i][n] = "="
                       /\ ~HasEq(key)
                       /\ \/ <<key, value>> \in hres.map
                          \/ \E j \in (i + 1)..Len(OutLines) :
                                /\ Len(OutLines[j]) >= n
                                /\ SubSeq(OutLines[j], 1, n) = SubSeq(OutLines[i], 1, n)

C8_Witness ==
    /\ Returned /\ hres.tag = "Ok"
    /\ \E e \in hres.map : e[1] # <<>> /\ HasEq(e[2])
    /\ \E e \in hres.map : e[2] = <<>>

C10_DistinctKinds ==
    (Returned /\ launches = 1) =>
        /\ ~HelperRan => hres.kind = "FailedExecutingCommand"
        /\ (HelperRan /\ ~success(output.status)) => hres.kind = "CommandExited"

----------------------------------------------------------------------------
(* Claims C11 to C20 *)

\* The bootstrap's three PAM calls among the calls made so far.
PamCalls ==
    SelectSeq(pamlog, LAMBDA c : c \in {"start", "acct_mgmt", "open_session"})

PamStartFailed == pamlog # <<>> /\ pam_ctx = "none"

\* The bootstrap has failed: try_pam_session has returned an error, or the
\* CLI has exited with status 1.
BootstrapFailed ==
    \/ entry = "try_pam_session" /\ pc = "ret" /\ result.tag = "Err"
    \/ entry = "main" /\ pc = "exit1"

\* C11: the bootstrap makes its calls in the order context-open, account
\* validation, session-open.  After a failed account validation session-open
\* is never called, no session exists and the call returns an error; after
\* a failed context-open neither later call is made.
C11_BootstrapInOrder ==
    /\ IsPrefix(PamCalls, <<"start", "acct_mgmt", "open_session">>)
    /\ pam_acct = "invalid" =>
        /\ PamCalls = <<"start", "acct_mgmt">>
        /\ pam_session = "none"
        /\ BootstrapFailed
    /\ PamStartFailed =>
        /\ PamCalls = <<"start">>
        /\ pam_acct = "unchecked" /\ pam_session = "none"
        /\ BootstrapFailed
    /\ pam_session # "none" => pam_acct = "valid" /\ pam_ctx # "none"

C11_Witness ==
    /\ entry = "try_pam_session" /\ pc = "ret"
    /\ pam_acct = "invalid" /\ pam_ctx = "ended"
    /\ result.tag = "Err"

\* The workload command has been configured: the CLI has spawned the
\* child, or cmd_as_username has returned its Command.
CommandBuilt ==
    \/ entry = "main" /\ child.tag = "Some"
    \/ entry = "cmd_as_username" /\ pc = "ret" /\ result.tag = "Ok"

TheCommand == IF entry = "main" THEN child.val ELSE result.cmd

\* The map the harvest returned to the code that builds the command.
HarvestedMap == IF entry = "main" THEN envs.val ELSE hres.map

\* C12: wherever the workload command is built, the child gets the uid and
\* the primary group id of the resolved user.
C12_ChildUidAndGid ==
    CommandBuilt =>
        /\ TheCommand.uid = user.val.uid
        /\ TheCommand.gid = user.val.primary_group_id

\* C13: the environment configured for the child is exactly the harvested
\* map: every entry of the map is there with its harvested value, and no
\* variable of the caller's own environment that the map lacks.
C13_ChildEnvIsHarvestedMap ==
    CommandBuilt =>
        /\ \A e \in HarvestedMap : e \in TheCommand.env
        /\ \A e \in TheCommand.env : e \in HarvestedMap
        /\ \A e \in CallerEnv :
            e[1] \notin Keys(HarvestedMap) => e[1] \notin Keys(TheCommand.env)

\* The caller's A=r is replaced by the harvested A=A and the caller's P
\* is gone.
C13_Witness ==
    /\ entry = "cmd_as_username" /\ pc = "ret" /\ result.tag = "Ok"
    /\ << <<"A">>, <<"A">> >> \in result.cmd.env
    /\ << <<"A">>, <<"r">> >> \in CallerEnv
    /\ <<"P">> \notin Keys(HarvestedMap)

\* The calls of a bootstrap that ran to its end and released the session.
PamCompleted == <<"start", "acct_mgmt", "open_session", "close_session", "end">>

\* The harvest has begun: the harvester was entered or the helper launched.
HarvestBegun == hfn # "none" \/ launches > 0

\* C14: in the CLI the harvest begins only once the bootstrap, if it ran,
\* has completed and its session is closed and its context ended; the
\* helper never runs while the session is open.
C14_SessionReleasedBeforeHarvest ==
    (entry = "main" /\ HarvestBegun) =>
        /\ pam_session # "open"
        /\ pam_ctx # "started"
        /\ pamlog # <<>> => pamlog = PamCompleted

C14_Witness ==
    /\ entry = "main" /\ launches = 1 /\ hpc = "got"
    /\ pam_session = "closed" /\ pam_ctx = "ended"

\* C15: a command is configured, and a child spawned, only after the
\* harvest has returned a map; after a failed harvest there is no command
\* and no child.
C15_CommandOnlyAfterHarvest ==
    /\ (CommandBuilt \/ childState # "none" \/ pc = "spawn") =>
        /\ hres.tag = "Ok"
        /\ hpc \in {"ret", "idle"}
        /\ launches = 1
    /\ hres.tag = "Err" =>
        /\ ~CommandBuilt
        /\ child = None /\ childState = "none"
        /\ pc # "spawn"

C15_Witness ==
    /\ entry = "main" /\ child.tag = "Some" /\ childState = "running"
    /\ hres.tag = "Ok" /\ envs = Some(hres.map)

Count(seq, x) == Cardinality({i \in 1..Len(seq) : seq[i] = x})

\* C16: the CLI runs the bootstrap only when nothing is at the home path.
\* While the home path holds a directory (or a file) that no session has
\* created, no PAM call has been made and no context or session exists,
\* and no PAM call is made twice in one run.
C16_BootstrapOnlyWhenHomeAbsent ==
    entry = "main" =>
        /\ (home # "absent" /\ pam_session = "none") =>
            /\ pamlog = <<>>
            /\ pam_ctx = "none"
        /\ pc \in {"pam_new", "pam_acct", "pam_open"} => home = "absent"
        /\ \A c \in {"start", "acct_mgmt", "open_session"} : Count(pamlog, c) <= 1

\* The home directory exists: the run reaches the harvest with no PAM call.
C16_Witness ==
    /\ entry = "main" /\ home = "dir" /\ launches = 1
    /\ pamlog = <<>> /\ pam_ctx = "none" /\ pam_session = "none"

\* C17: when the user name resolves to no record, cmd_as_username returns
\* UserNotFound (the CLI exits with status 1) and nothing else has run: no
\* PAM call, no harvester, no helper launch, no command and no child.
C17_UnknownUserStopsAll ==
    (entry \in {"cmd_as_username", "main"} /\ user = None /\ pc # "lookup") =>
        /\ IF entry = "main"
           THEN pc = "exit1"
           ELSE pc = "ret" /\ result = Err("UserNotFound", <<>>)
        /\ pamlog = <<>> /\ pam_ctx = "none" /\ pam_session = "none"
        /\ hfn = "none" /\ launches = 0 /\ hres = NoResult
        /\ ~CommandBuilt
        /\ child = None /\ childState = "none"

C17_Witness ==
    /\ entry = "cmd_as_username" /\ pc = "ret" /\ user = None
    /\ result.tag = "Err" /\ result.kind = "UserNotFound"

\* C18: a reader that could not read its stream to the end (its thread
\* panicked on a line it could not read) keeps the run from ending as a
\* normal success.
C18_ReadErrorIsFatal ==
    (\E s \in Streams : rd[s] = "panic") => pc # "exit0"

\* open_session was called and gave no session.
PamOpenFailed ==
    /\ Count(pamlog, "open_session") = 1
    /\ pam_session = "none"

\* C19: in the CLI a child exists only if the lookup found a record whose
\* home path is valid UTF-8, the bootstrap, when it ran, succeeded at each
\* of its three calls, and the harvest returned the map the child got;
\* after a failure of any of these the process is at exit status 1, and at
\* exit status 1 there is no child.
C19_SpawnOnlyAfterAllSteps ==
    entry = "main" =>
        /\ (child # None \/ childState # "none") =>
            /\ user # None /\ user.val.home_utf8
            /\ pamlog \in {<<>>, PamCompleted}
            /\ pam_acct \in {"unchecked", "valid"}
            /\ pam_session \in {"none", "closed"}
            /\ hres.tag = "Ok" /\ envs = Some(hres.map)
        /\ pc = "exit1" => child = None /\ childState = "none"
        /\ \/ user = None /\ pc # "lookup"
           \/ user # None /\ ~user.val.home_utf8
           \/ PamStartFailed
           \/ pam_acct = "invalid"
           \/ PamOpenFailed
           \/ hres.tag = "Err" /\ hfn = "none"
           => pc = "exit1"

\* The bootstrap ran and succeeded, the harvest returned a map and the
\* child runs.
C19_Witness ==
    /\ entry = "main" /\ childState = "running" /\ child # None
    /\ pamlog = PamCompleted /\ pam_acct = "valid"
    /\ hres.tag = "Ok"

\* What the other harvester returns for the same helper outcome.
OtherHarvesterResult(o) ==
    IF hfn = "get_user_env" THEN get_env_as_map_result(o)
    ELSE get_user_env_result(o)

\* C20: for a caller with effective uid 0, get_user_env and get_env_as_map
\* agree on every helper outcome: what one has returned and what the other
\* returns for the same outcome are both Ok or both Err, and when Ok they
\* hold the same map; a launch that fails is an Err from both.
C20_HarvestersEquivalent ==
    (hfn \in Harvesters /\ euid = 0 /\ Returned) =>
        IF HelperRan
        THEN /\ hres.tag = OtherHarvesterResult(output).tag
             /\ hres.tag = "Ok" => hres.map = OtherHarvesterResult(output).map
        ELSE /\ hres.tag = "Err"
             /\ \A e \in IoErrors :
                /\ get_user_env_launch_error(e).tag = "Err"
                /\ get_env_as_map_launch_error(e).tag = "Err"

C20_Witness ==
    /\ entry = "get_env_as_map" /\ euid = 0 /\ Returned /\ HelperRan
    /\ hres.tag = "Ok" /\ Cardinality(hres.map) = 2
    /\ get_user_env_result(output) = hres

====
